---------------------------- MODULE Spec2Model ----------------------------
(*************************************************************************)
(* Model of the team-simulation application:                             *)
(*   - the interview session (src/src/app/interview/page.tsx,            *)
(*     InterviewContent): initializeInterview, handleSubmitResponse,     *)
(*     handleFinishSimulation, each split at its awaits;                 *)
(*   - the analyze endpoint (src/src/app/api/analyze-interview/route.ts, *)
(*     POST), one process per request, split at its awaits;              *)
(*   - the Firestore collection "simulations" as a sequence of documents *)
(*     (document id = index in the sequence);                            *)
(*   - the stateless endpoints /api/gen, /api/makeinterview and          *)
(*     /api/next-prompt (src/unnamed/part_001, part_002, part_000), each *)
(*     split at its await of the text model, and SelectionPage's         *)
(*     handleGenerate; they share no state with the collection and are   *)
(*     explored on their own (ApiSpec);                                  *)
(*   - SelectionPage's handleProceed, which hands the chosen scenario to *)
(*     the interview page through the query string, explored together    *)
(*     with initializeInterview (NavSpec).                               *)
(* LiveSpec is the session alone under the assumption that every call   *)
(* it awaits settles.                                                    *)
(* An optional value is a sequence of length 0 (absent) or 1 (present).  *)
(* Transcript entries are modelled by their role and content; the        *)
(* timestamp field of an entry is never read by the code.                *)
(*************************************************************************)
EXTENDS Integers, Sequences, FiniteSets, TLC

\* ---------------------------------------------------------------- bounds
\* Longest local transcript a session may build.
MaxLen == 4
\* Number of analyze requests that may be issued (each runs once).
NumAnalyzers == 2

\* ---------------------------------------------------------------- inputs
TeamContents == {"a"}
Blank == " "
TypedTexts == TeamContents \cup {Blank}
HostLines == {"h1"}
OpeningPrompts == {"o1"}
\* Outcomes of POST /api/next-prompt as seen by the client: a non-OK
\* response ("fail"), an OK response whose nextPrompt is empty (""), or an
\* OK response carrying a host line.
NextPromptOutcomes == {"fail", ""} \cup HostLines
\* Outcomes of POST /api/makeinterview as seen by the client.
OpeningOutcomes == {"fail"} \cup OpeningPrompts
\* Outcomes of the text model for the analyze endpoint.
Heatmap(n) == [Decisiveness |-> n, EthicalFocus |-> n, DataDriven |-> n,
               LongTermThinking |-> n, BiasForAction |-> n,
               Collaboration |-> n]
AnalysisA == [overallScore |-> 80, keyStrengths |-> <<"s1", "s2">>,
              growthAreas |-> <<"g1", "g2">>, actionableFeedback |-> "fa",
              heatmapData |-> Heatmap(8)]
AnalysisB == [overallScore |-> 35, keyStrengths |-> <<"s3", "s4">>,
              growthAreas |-> <<"g3", "g4">>, actionableFeedback |-> "fb",
              heatmapData |-> Heatmap(3)]
Analyses == {AnalysisA, AnalysisB}
GenFailures == {"notOk", "noText", "badJson"}
\* Query parameters of the interview page.
ValidParams == [present |-> TRUE, teamSize |-> 4, domain |-> "Healthcare",
                scenario |-> [title |-> "t", description |-> "d",
                              keyDecision |-> "k"]]
MissingParams == [present |-> FALSE, teamSize |-> 0, domain |-> "",
                  scenario |-> [title |-> "", description |-> "",
                                keyDecision |-> ""]]
\* Scenarios the selection page may show.
ShownScenarios ==
    {[title |-> t, description |-> d, keyDecision |-> "k"] :
        t \in {"t", "A>B", "CEO's", "cafe"}, d \in {"d", "A>B"}}
ShownLists == {<<a, b>> : a \in ShownScenarios, b \in ShownScenarios}
Times == {1}
\* Document ids an analyze request may carry: none (0) or the id of the
\* first document of the collection (1), which is absent until the session
\* has created it.
DocIds == {0, 1}

Procs == 1..NumAnalyzers

None == <<>>
Some(x) == <<x>>

VARIABLES
    store,            \* Firestore collection "simulations"
    \* ---- InterviewContent state
    initHasRun, loading, error, userResponse, simulationDocId, transcript,
    scenario, teamSize, domain,
    pc,               \* position of the session's running handler
    teamEntry, newTranscript, finalTranscript, prevTranscript,
    payload,          \* body of the request to /api/next-prompt in flight
    \* ---- analyze endpoint, per request
    apc, docId, response,
    \* ---- history of the run
    lastOutcome, retryBase, okSubmits, anyFailure,
    genCalls, analysisWrites, statusRead,
    \* ---- the stateless endpoints and the selection page
    endpoint,         \* endpoint of the request being served
    body,             \* its JSON body
    apiPc,            \* idle | calling | responded
    upstream,         \* what the text model answered, once it has
    apiResponse,      \* the endpoint's response
    apiCalls,         \* model requests issued for the request
    caller,           \* page | direct: who awaits the response
    userPrompt,       \* /api/next-prompt: the prompt sent to the model
    scenarios, selError,   \* SelectionPage state
    pushed,           \* the query string handleProceed gave to router.push
    proceeded         \* history: the scenario handleProceed was called for

sessVars == <<initHasRun, loading, error, userResponse, simulationDocId,
              transcript, scenario, teamSize, domain, pc, teamEntry,
              newTranscript, finalTranscript, prevTranscript, payload>>
anVars == <<apc, docId, response>>
histSess == <<lastOutcome, retryBase, okSubmits, anyFailure>>
histAn == <<genCalls, analysisWrites, statusRead>>
navVars == <<pushed, proceeded>>
apiVars == <<endpoint, body, apiPc, upstream, apiResponse, apiCalls, caller,
             userPrompt, scenarios, selError, navVars>>
simVars == <<store, sessVars, anVars, histSess, histAn>>
vars == <<store, sessVars, anVars, histSess, histAn, apiVars>>

\* ------------------------------------------------------------- helpers
Entry(role, content) == [role |-> role, content |-> content]

Trim(s) == IF s = Blank THEN "" ELSE s

Exists(id) == id \in 1..Len(store)

NoResponse == [status |-> 0, analysis |-> None, error |-> ""]
ErrorResponse(code, msg) == [status |-> code, analysis |-> None, error |-> msg]
OkResponse(a) == [status |-> 200, analysis |-> Some(a), error |-> ""]

\* ------------------------------------------------ document construction
\* Variant: the document is created with a placeholder entry in its
\* transcript.
DocData_Seeded(params, now) ==
    [teamSize |-> params.teamSize, domain |-> params.domain,
     scenario |-> params.scenario, status |-> "pending",
     createdAt |-> now, transcript |-> <<Entry("host", "")>>,
     analysis |-> None]

DocData(params, now) ==
    [teamSize |-> params.teamSize, domain |-> params.domain,
     scenario |-> params.scenario, status |-> "pending",
     createdAt |-> now, transcript |-> <<>>, analysis |-> None]

\* Variant: the write appends the last entry of t to the stored array.
UpdateTranscript_AppendLast(rec, t) ==
    [rec EXCEPT !.transcript = Append(@, t[Len(t)])]

\* updateDoc(docRef, {transcript: t})
UpdateTranscript(rec, t) == [rec EXCEPT !.transcript = t]

\* Variant: the whole document is written anew, with an empty transcript.
UpdateCompleted_Rewritten(rec) ==
    [rec EXCEPT !.status = "completed", !.transcript = <<>>]

\* updateDoc(docRef, {status: "completed"})
UpdateCompleted(rec) == [rec EXCEPT !.status = "completed"]


\* Variant: the write carries only the new entry.
NewTranscript_OnlyNew(t, e) == <<e>>

\* newTranscript = [...transcript, teamEntry]
NewTranscript(t, e) == Append(t, e)

\* Variant: the host entry is appended to the transcript as it was before
\* the team's turn.
FinalTranscript_FromStale(t, e) == Append(SubSeq(t, 1, Len(t) - 1), e)

\* finalTranscript = [...newTranscript, hostEntry]
FinalTranscript(t, e) == Append(t, e)

\* Variant: the team's text is recorded under the host role.
TeamEntry_AsHost(text) == Entry("host", text)

\* teamEntry = {role: "team", content: userResponse}
TeamEntry(text) == Entry("team", text)

\* Variant: the generated line is recorded under the team role.
HostEntry_AsTeam(prompt) == Entry("team", prompt)

\* hostEntry = {role: "host", content: prompt}
HostEntry(prompt) == Entry("host", prompt)

\* Variant: the next prompt is requested whether or not the write succeeded.
AfterTeamWrite_Always(ok) == "fetchNext"

\* Where handleSubmitResponse goes once updateDoc of the team's turn has
\* settled: on to the request for the next prompt, or into the catch block.
AfterTeamWrite(ok) == IF ok THEN "fetchNext" ELSE "idle"

\* Variant: only the latest team entry is sent.
Payload_LatestOnly(ts, d, sc, t) ==
    [teamSize |-> ts, domain |-> d, scenario |-> sc,
     transcript |-> <<[role |-> t[Len(t)].role, content |-> t[Len(t)].content]>>]

\* payload = {teamSize, domain, scenario,
\*            transcript: newTranscript.map(t => ({role, content}))}
Payload(ts, d, sc, t) ==
    [teamSize |-> ts, domain |-> d, scenario |-> sc,
     transcript |-> [i \in 1..Len(t) |->
                        [role |-> t[i].role, content |-> t[i].content]]]

\* No handler of the session is at an await: the start and every submit
\* and finish begun so far have returned (after a successful finish the
\* router has been sent to the analysis page).
Settled == pc \in {"idle", "navigated"}

\* Variant: the button looks at the text only.
SubmitEnabled_IgnoresLoading == Trim(userResponse) # ""

\* Submit button: disabled={!userResponse.trim() || loading}
SubmitEnabled == Trim(userResponse) # "" /\ ~loading

\* Variant: a finally block clears the flag after the navigation as well.
LoadingAfterFinish_Cleared(was) == FALSE

\* The loading flag once finish's write has succeeded: the try block ends
\* with router.push and sets nothing, so the flag is as it was.
LoadingAfterFinish(was) == was

\* Finish button: disabled={loading || transcript.length < 2}
FinishEnabled == ~loading /\ Len(transcript) >= 2

\* =====================================================================
\* The stateless endpoints: POST /api/gen (src/unnamed/part_001),
\* POST /api/makeinterview (src/unnamed/part_002) and POST /api/next-prompt
\* (src/unnamed/part_000), and the selection page that calls /api/gen.
\* =====================================================================
\* ------------------------------------------------- JSON values of a body
\* A teamSize as it arrives in a body: a number, a string, or absent.
Num(n) == [type |-> "number", val |-> n]
NumericString == [type |-> "string", val |-> 4]
Undefined == [type |-> "undefined", val |-> 0]
\* !v is false for a non-empty string and for a number other than 0.
Truthy(v) == v.type = "string" \/ (v.type = "number" /\ v.val # 0)

IncompleteScenario == [title |-> "", description |-> "d", keyDecision |-> "k"]
ValidBody ==
    [teamSize |-> Num(4), domain |-> Some("Healthcare"),
     scenario |-> Some(ValidParams.scenario),
     transcript |-> Some(<<[role |-> "host", content |-> "o1"],
                           [role |-> "team", content |-> "a"]>>)]
NoBody == [teamSize |-> Undefined, domain |-> None, scenario |-> None,
           transcript |-> None]
\* The bodies a request may carry: the valid one, and the valid one with
\* one member missing or malformed.
Bodies ==
    {ValidBody}
    \cup {[ValidBody EXCEPT !.teamSize = v] :
             v \in {Num(0), Num(-1), NumericString, Undefined}}
    \cup {[ValidBody EXCEPT !.domain = d] : d \in {Some(""), Some(Blank), None}}
    \cup {[ValidBody EXCEPT !.scenario = sc] :
             sc \in {None, Some(IncompleteScenario)}}
    \cup {[ValidBody EXCEPT !.transcript = t] : t \in {None, Some(<<>>)}}
Endpoints == {"gen", "makeinterview", "next-prompt"}
\* What the selection page's form may hold.
FormTeamSizes == {0, 4}
FormFields == {"Healthcare", Blank}

\* ------------------------------------------------- the text model's answer
\* The request to the model rejects (no response at all), is answered with
\* a non-OK status, or is answered OK: with no candidate text because the
\* content was blocked, with no candidate text otherwise, or with text.
\* The endpoints read response.ok and candidates[0].content.parts[0].text
\* only; the block reason and finish reason are not read.
UpstreamStatuses == {429, 503}
Throws == [kind |-> "throws", status |-> 0, text |-> None]
NotOk(n) == [kind |-> "notOk", status |-> n, text |-> None]
Blocked == [kind |-> "blocked", status |-> 200, text |-> None]
NoCandidate == [kind |-> "noCandidate", status |-> 200, text |-> None]
Text(t) == [kind |-> "text", status |-> 200, text |-> Some(t)]
NoText == {Throws, Blocked, NoCandidate} \cup {NotOk(n) : n \in UpstreamStatuses}
\* response.ok
ResponseOk(up) == up.status \in 200..299
StatusText(n) == IF n = 429 THEN "Too Many Requests"
                 ELSE IF n = 503 THEN "Service Unavailable" ELSE "Error"

\* ---- /api/gen: the text is a JSON document or is not; a document is an
\* array of items or something else; a member of an item is absent (None)
\* or a string.
ScenarioCount == 10
GoodItem == [title |-> Some("t"), description |-> Some("d"),
             keyDecision |-> Some("k")]
Items(n) == [i \in 1..n |-> GoodItem]
JsonArray(items) == [parses |-> TRUE, isArray |-> TRUE, items |-> items]
JsonObject == [parses |-> TRUE, isArray |-> FALSE, items |-> <<>>]
NotJson == [parses |-> FALSE, isArray |-> FALSE, items |-> <<>>]
GenTexts ==
    {NotJson, JsonObject,
     JsonArray(Items(ScenarioCount)),
     JsonArray(Items(ScenarioCount - 1)),
     JsonArray(Items(ScenarioCount + 1)),
     JsonArray([Items(ScenarioCount) EXCEPT ![1].title = Some("")]),
     JsonArray([Items(ScenarioCount) EXCEPT ![1].keyDecision = None])}
GenUpstreams == NoText \cup {Text(t) : t \in GenTexts}

\* ---- /api/makeinterview: the text holds a JSON object or none, with or
\* without other characters before its first '{' and after its last '}'.
\* The object has an openingPrompt or lacks it.
WithPrompt == [openingPrompt |-> Some("o1")]
WithoutPrompt == [openingPrompt |-> None]
OpeningText(before, object, after) ==
    [before |-> before, object |-> object, after |-> after]
OpeningTexts ==
    {OpeningText(FALSE, Some(WithPrompt), FALSE),
     OpeningText(FALSE, Some(WithoutPrompt), FALSE),
     OpeningText(TRUE, Some(WithPrompt), TRUE),
     OpeningText(FALSE, Some(WithPrompt), TRUE),
     OpeningText(TRUE, None, FALSE)}
OpeningUpstreams == NoText \cup {Text(t) : t \in OpeningTexts}

\* ---- /api/next-prompt: the text is a non-empty sequence of characters;
\* the label "Host:" in either case counts as one character here.
MaxTextLen == 3
\* The double-quote character.
Quote == "dq"
Space == " "
Chars == {"Host:", "host:", Quote, Space, "x"}
RECURSIVE TextsOfLen(_)
TextsOfLen(n) ==
    IF n = 0 THEN {<<>>}
    ELSE {Append(t, c) : t \in TextsOfLen(n - 1), c \in Chars}
HostTexts == UNION {TextsOfLen(n) : n \in 1..MaxTextLen}
NextPromptUpstreams == NoText \cup {Text(t) : t \in HostTexts}

\* ------------------------------------------------- responses
NoApiResponse == [status |-> 0, error |-> None, details |-> None, data |-> None]
ApiError(code, msg, details) ==
    [status |-> code, error |-> Some(msg), details |-> details, data |-> None]
ApiOk(data) ==
    [status |-> 200, error |-> None, details |-> None, data |-> Some(data)]

\* ------------------------------------------------- input validation
\* /api/gen: if (!teamSize || typeof teamSize !== 'number' || teamSize <= 0)
\*           if (!domain || typeof domain !== 'string' || domain.trim() === '')
GenInvalid(b) ==
    IF ~Truthy(b.teamSize) \/ b.teamSize.type # "number" \/ b.teamSize.val <= 0
    THEN Some("Invalid 'teamSize' provided. Must be a positive number.")
    ELSE IF b.domain = None \/ b.domain[1] = "" \/ Trim(b.domain[1]) = ""
    THEN Some("Invalid 'domain' provided. Must be a non-empty string.")
    ELSE None

\* /api/makeinterview: if (!teamSize || !domain || !scenario ||
\*     !scenario.title || !scenario.description || !scenario.keyDecision)
MakeInterviewInvalid(b) ==
    IF \/ ~Truthy(b.teamSize)
       \/ b.domain = None \/ b.domain[1] = ""
       \/ b.scenario = None
       \/ b.scenario[1].title = "" \/ b.scenario[1].description = ""
       \/ b.scenario[1].keyDecision = ""
    THEN Some("Invalid teamSize, domain, or scenario data provided")
    ELSE None

\* /api/next-prompt: if (!body.transcript || body.transcript.length === 0)
\*                   if (!body.scenario)
NextPromptInvalid(b) ==
    IF b.transcript = None \/ Len(b.transcript[1]) = 0
    THEN Some("Transcript is empty")
    ELSE IF b.scenario = None
    THEN Some("No scenario provided")
    ELSE None

Invalid(ep, b) ==
    IF ep = "gen" THEN GenInvalid(b)
    ELSE IF ep = "makeinterview" THEN MakeInterviewInvalid(b)
    ELSE NextPromptInvalid(b)

\* ------------------------------------------------- /api/gen, after fetch
GenRespond(up) ==
    IF up.kind = "throws"
    THEN ApiError(500, "Internal server error", None)
    ELSE IF ~ResponseOk(up)
    THEN ApiError(up.status, StatusText(up.status), Some("errorBody"))
    ELSE IF up.text = None
    THEN ApiError(500, "Invalid response structure from AI model", None)
    ELSE IF ~up.text[1].parses
    THEN ApiError(500, "Failed to parse AI response as JSON.", None)
    ELSE ApiOk(up.text[1])

\* ------------------------------------------------- /api/makeinterview
\* jsonText = text.trim(); when it does not start with '{' and holds a
\* '{' before a '}', the slice between them is taken; JSON.parse(jsonText).
\* The result is the parsed object, or None when JSON.parse throws.
ExtractJson(t) ==
    IF t.object = None THEN None
    ELSE IF ~t.before /\ t.after THEN None
    ELSE t.object

MakeInterviewRespond(up) ==
    IF up.kind = "throws"
    THEN ApiError(500, "Internal server error", None)
    ELSE IF ~ResponseOk(up)
    THEN ApiError(up.status, StatusText(up.status), Some("errorBody"))
    ELSE IF up.text = None
    THEN ApiError(500, "Invalid response structure from AI model", None)
    ELSE IF ExtractJson(up.text[1]) = None
    THEN ApiError(500, "Failed to parse AI response as JSON.", None)
    ELSE IF ExtractJson(up.text[1])[1].openingPrompt = None
    THEN ApiError(500, "AI response missing openingPrompt", None)
    ELSE ApiOk(ExtractJson(up.text[1])[1].openingPrompt[1])

\* ------------------------------------------------- /api/next-prompt
\* entry.role.toUpperCase()
ToUpperCase(role) == IF role = "host" THEN "HOST"
                     ELSE IF role = "team" THEN "TEAM" ELSE role

\* buildUserPrompt: the context, and one line "ROLE: content" for every
\* entry of the transcript of the body, in order.
BuildUserPrompt(b) ==
    [scenario |-> <<b.scenario.title, b.scenario.keyDecision>>,
     domain |-> b.domain, teamSize |-> b.teamSize,
     transcriptText |-> [i \in 1..Len(b.transcript) |->
                            <<ToUpperCase(b.transcript[i].role),
                              b.transcript[i].content>>]]

\* The body as buildUserPrompt reads it: a member that is absent is
\* undefined.
Read(b) ==
    [teamSize |-> b.teamSize,
     domain |-> IF b.domain = None THEN "undefined" ELSE b.domain[1],
     scenario |-> b.scenario[1], transcript |-> b.transcript[1]]

\* .replace(/^Host:/i, "")
StripLabel(t) ==
    IF Len(t) > 0 /\ t[1] \in {"Host:", "host:"} THEN Tail(t) ELSE t

\* .replace(/"/g, "")
IsNotQuote(c) == c # Quote
RemoveQuotes(t) == SelectSeq(t, IsNotQuote)

\* .trim()
RECURSIVE TrimStart(_)
TrimStart(t) ==
    IF Len(t) > 0 /\ t[1] = Space THEN TrimStart(Tail(t)) ELSE t
RECURSIVE TrimEnd(_)
TrimEnd(t) ==
    IF Len(t) > 0 /\ t[Len(t)] = Space
    THEN TrimEnd(SubSeq(t, 1, Len(t) - 1)) ELSE t
TrimText(t) == TrimEnd(TrimStart(t))

CleanedPrompt(nextPrompt) == TrimText(RemoveQuotes(StripLabel(nextPrompt)))

\* The message of the error model.generateContent throws.
SdkMessage(up) ==
    IF up.kind = "throws" THEN "fetch failed" ELSE StatusText(up.status)

NextPromptRespond(up) ==
    IF up.kind = "throws" \/ ~ResponseOk(up)
    THEN ApiError(500, "Internal server error", Some(SdkMessage(up)))
    ELSE IF up.text = None
    THEN ApiError(500, "Internal server error",
                  Some("AI did not return a valid response."))
    ELSE ApiOk(CleanedPrompt(up.text[1]))

\* ------------------------------------- the scenario in the navigation URL
\* SelectionPage.handleProceed writes the chosen scenario into the query
\* string as btoa(unescape(encodeURIComponent(JSON.stringify(scenario))))
\* and initializeInterview reads it back with
\* JSON.parse(decodeURIComponent(escape(atob(searchParams.get("scenario"))))).
\* Each conversion is computed on the characters: a text is the sequence of
\* its UTF-16 code units, the base-64 text the sequence of its digits.
\* The texts of the model, by name.
KnownTexts == {"", "t", "d", "k", "A>B", "CEO's", "cafe"}
\* "CEO's" is written with U+2019 and "cafe" with U+00E9.
CodeUnits(s) ==
    CASE s = "" -> <<>>
      [] s = "t" -> <<116>>
      [] s = "d" -> <<100>>
      [] s = "k" -> <<107>>
      [] s = "A>B" -> <<65, 62, 66>>
      [] s = "CEO's" -> <<67, 69, 79, 8217, 115>>
      [] s = "cafe" -> <<99, 97, 102, 233>>
\* A text that is none of the model's own is "?".
TextOf(u) ==
    IF \E s \in KnownTexts : CodeUnits(s) = u
    THEN CHOOSE s \in KnownTexts : CodeUnits(s) = u
    ELSE "?"

\* Base-64 digits are 0..63 in alphabet order ('+' is digit 62); the
\* padding sign and the space are the two further characters that occur.
Plus == 62
Pad == 64
SpaceChar == 65
DoubleQuote == 34
Backslash == 92

\* The concatenation of a sequence of sequences.
RECURSIVE Flatten(_)
Flatten(ss) ==
    IF ss = <<>> THEN <<>>
    ELSE IF Len(ss) = 1 THEN ss[1]
    ELSE Flatten(SubSeq(ss, 1, Len(ss) \div 2))
         \o Flatten(SubSeq(ss, (Len(ss) \div 2) + 1, Len(ss)))

\* JSON.stringify of a string: quoted, with '"' and '\' escaped.
JsonString(u) ==
    <<DoubleQuote>>
    \o Flatten([i \in 1..Len(u) |->
                   IF u[i] \in {DoubleQuote, Backslash}
                   THEN <<Backslash, u[i]>> ELSE <<u[i]>>])
    \o <<DoubleQuote>>

\* The member names with their colon: "title": "description": "keyDecision":
TitleKey == <<34, 116, 105, 116, 108, 101, 34, 58>>
DescriptionKey == <<34, 100, 101, 115, 99, 114, 105, 112, 116, 105, 111,
                    110, 34, 58>>
KeyDecisionKey == <<34, 107, 101, 121, 68, 101, 99, 105, 115, 105, 111, 110,
                    34, 58>>
OpenBrace == <<123>>
Comma == <<44>>
CloseBrace == <<125>>

\* JSON.stringify(scenario)
JsonStringify(sc) ==
    OpenBrace \o TitleKey \o JsonString(CodeUnits(sc.title))
    \o Comma \o DescriptionKey \o JsonString(CodeUnits(sc.description))
    \o Comma \o KeyDecisionKey \o JsonString(CodeUnits(sc.keyDecision))
    \o CloseBrace

\* unescape(encodeURIComponent(text)): the UTF-8 bytes of the text, one
\* character per byte (code units below U+D800).
Utf8Encode(u) ==
    Flatten([i \in 1..Len(u) |->
        IF u[i] < 128 THEN <<u[i]>>
        ELSE IF u[i] < 2048
        THEN <<192 + (u[i] \div 64), 128 + (u[i] % 64)>>
        ELSE <<224 + (u[i] \div 4096), 128 + ((u[i] \div 64) % 64),
               128 + (u[i] % 64)>>])

\* btoa(bytes): each three bytes give four digits, and a last group of
\* one or two bytes is filled up with padding signs.
ByteAt(b, i) == IF i <= Len(b) THEN b[i] ELSE 0
Btoa(b) ==
    [k \in 1..(4 * ((Len(b) + 2) \div 3)) |->
        LET i == 3 * ((k - 1) \div 4) + 1
        IN  CASE (k - 1) % 4 = 0 -> b[i] \div 4
              [] (k - 1) % 4 = 1 ->
                     (b[i] % 4) * 16 + (ByteAt(b, i + 1) \div 16)
              [] (k - 1) % 4 = 2 ->
                     IF i + 1 > Len(b) THEN Pad
                     ELSE (b[i + 1] % 16) * 4 + (ByteAt(b, i + 2) \div 64)
              [] (k - 1) % 4 = 3 ->
                     IF i + 2 > Len(b) THEN Pad ELSE b[i + 2] % 64]

\* The query string handleProceed hands to router.push.  The base-64 text
\* is written as it is; teamSize is written in decimal and read back by
\* parseInt, and the field is percent-encoded and decoded by the parser of
\* the search parameters, so both are kept as their value.
Href(sc, ts, field) ==
    [scenario |-> Some(Btoa(Utf8Encode(JsonStringify(sc)))),
     teamSize |-> Some(ts), domain |-> Some(field)]
\* The interview page opened without a query string.
NoQuery == [scenario |-> None, teamSize |-> None, domain |-> None]

\* searchParams.get: the query string is parsed as a form, where '+'
\* stands for a space.
FormDecode(s) == [i \in 1..Len(s) |-> IF s[i] = Plus THEN SpaceChar ELSE s[i]]
SearchParams(href) ==
    [href EXCEPT !.scenario = IF @ = None THEN None
                              ELSE Some(FormDecode(@[1]))]

\* atob(text): white space is dropped, the padding of a text whose length
\* is a multiple of four is dropped, and what is left is decoded unless it
\* holds a character that is no digit or its length is 1 modulo 4
\* (InvalidCharacterError).
IsNotSpace(c) == c # SpaceChar
StripPad(s) ==
    IF Len(s) % 4 # 0 \/ Len(s) = 0 \/ s[Len(s)] # Pad THEN s
    ELSE IF s[Len(s) - 1] = Pad THEN SubSeq(s, 1, Len(s) - 2)
    ELSE SubSeq(s, 1, Len(s) - 1)
\* Each four digits give three bytes; a last group of two or three digits
\* gives one or two.
FromDigits(s) ==
    [k \in 1..(3 * (Len(s) \div 4)
               + (IF Len(s) % 4 = 0 THEN 0 ELSE (Len(s) % 4) - 1)) |->
        LET i == 4 * ((k - 1) \div 3) + 1
        IN  CASE (k - 1) % 3 = 0 -> s[i] * 4 + (s[i + 1] \div 16)
              [] (k - 1) % 3 = 1 ->
                     (s[i + 1] % 16) * 16 + (s[i + 2] \div 4)
              [] (k - 1) % 3 = 2 -> (s[i + 2] % 4) * 64 + s[i + 3]]
Atob(s) ==
    LET t == StripPad(SelectSeq(s, IsNotSpace))
    IN  IF Len(t) % 4 = 1 \/ \E i \in 1..Len(t) : t[i] > 63
        THEN None
        ELSE Some(FromDigits(t))

\* decodeURIComponent(escape(bytes)): the text the bytes encode in UTF-8,
\* or URIError when they are no UTF-8 text.
IsContinuation(b, i) == i \in 1..Len(b) /\ b[i] \in 128..191
\* Bytes announced by the byte at i: 0 for a byte that begins nothing.
Announced(b, i) ==
    IF b[i] < 128 THEN 1
    ELSE IF b[i] \in 194..223 THEN 2
    ELSE IF b[i] \in 224..239 THEN 3
    ELSE IF b[i] \in 240..244 THEN 4
    ELSE 0
\* The code point of the character beginning at i.
Point(b, i) ==
    CASE Announced(b, i) = 1 -> b[i]
      [] Announced(b, i) = 2 -> (b[i] - 192) * 64 + (b[i + 1] - 128)
      [] Announced(b, i) = 3 ->
             (b[i] - 224) * 4096 + (b[i + 1] - 128) * 64 + (b[i + 2] - 128)
      [] Announced(b, i) = 4 ->
             (b[i] - 240) * 262144 + (b[i + 1] - 128) * 4096
             + (b[i + 2] - 128) * 64 + (b[i + 3] - 128)
\* A character begins at i and is well formed.
CharacterAt(b, i) ==
    /\ Announced(b, i) > 0
    /\ \A j \in (i + 1)..(i + Announced(b, i) - 1) : IsContinuation(b, j)
    /\ Announced(b, i) = 3 =>
           Point(b, i) >= 2048 /\ Point(b, i) \notin 55296..57343
    /\ Announced(b, i) = 4 => Point(b, i) \in 65536..1114111
Utf8Decode(b) ==
    IF \A i \in 1..Len(b) :
          \/ ~IsContinuation(b, i) /\ CharacterAt(b, i)
          \/ /\ IsContinuation(b, i)
             /\ \E j \in 1..(i - 1) :
                   /\ ~IsContinuation(b, j)
                   /\ CharacterAt(b, j)
                   /\ i < j + Announced(b, j)
    THEN Some(Flatten([i \in 1..Len(b) |->
             IF IsContinuation(b, i) THEN <<>>
             ELSE IF Announced(b, i) < 4 THEN <<Point(b, i)>>
             ELSE <<55296 + ((Point(b, i) - 65536) \div 1024),
                    56320 + ((Point(b, i) - 65536) % 1024)>>]))
    ELSE None

\* JSON.parse(text), for the texts JSON.stringify writes of an object with
\* the three string members; any other text is a SyntaxError.
StartsWith(u, i, lit) ==
    /\ i + Len(lit) - 1 <= Len(u)
    /\ SubSeq(u, i, i + Len(lit) - 1) = lit
RECURSIVE ScanString(_, _, _)
ScanString(u, j, acc) ==
    IF j > Len(u) THEN None
    ELSE IF u[j] = DoubleQuote THEN Some([text |-> acc, next |-> j + 1])
    ELSE IF u[j] = Backslash
    THEN IF j + 1 <= Len(u) /\ u[j + 1] \in {DoubleQuote, Backslash}
         THEN ScanString(u, j + 2, Append(acc, u[j + 1]))
         ELSE None
    ELSE IF u[j] < 32 THEN None
    ELSE ScanString(u, j + 1, Append(acc, u[j]))
Member(u, i, key) ==
    IF StartsWith(u, i, key \o <<DoubleQuote>>)
    THEN ScanString(u, i + Len(key) + 1, <<>>)
    ELSE None
JsonParse(u) ==
    LET t == IF StartsWith(u, 1, OpenBrace)
             THEN Member(u, 2, TitleKey) ELSE None
        d == IF t # None /\ StartsWith(u, t[1].next, Comma)
             THEN Member(u, t[1].next + 1, DescriptionKey) ELSE None
        k == IF d # None /\ StartsWith(u, d[1].next, Comma)
             THEN Member(u, d[1].next + 1, KeyDecisionKey) ELSE None
    IN  IF k # None /\ SubSeq(u, k[1].next, Len(u)) = CloseBrace
        THEN Some([title |-> TextOf(t[1].text),
                   description |-> TextOf(d[1].text),
                   keyDecision |-> TextOf(k[1].text)])
        ELSE None

\* const scenarioJson = decodeURIComponent(escape(atob(encodedScenario)));
\* const parsedScenario = JSON.parse(scenarioJson);
\* absent when one of the three throws.
DecodeScenario(s) ==
    LET bytes == Atob(s)
        text == IF bytes = None THEN None ELSE Utf8Decode(bytes[1])
    IN  IF text = None THEN None ELSE JsonParse(text[1])

\* The queries the interview page is opened with when the selection page
\* is not part of the run.
Queries ==
    {SearchParams(Href(ValidParams.scenario, ValidParams.teamSize,
                       ValidParams.domain)),
     NoQuery}

\* --------------------------------------------------------------- Init
\* Everything but the scenarios of the selection page.
Mounted ==
    /\ store = <<>>
    /\ initHasRun = FALSE
    /\ loading = TRUE
    /\ error = None
    /\ userResponse = ""
    /\ simulationDocId = 0
    /\ transcript = <<>>
    /\ scenario = MissingParams.scenario
    /\ teamSize = 0
    /\ domain = ""
    /\ pc = "init"
    /\ teamEntry = None
    /\ newTranscript = <<>>
    /\ finalTranscript = <<>>
    /\ prevTranscript = <<>>
    /\ payload = None
    /\ apc = [p \in Procs |-> "idle"]
    /\ docId = [p \in Procs |-> 0]
    /\ response = [p \in Procs |-> NoResponse]
    /\ lastOutcome = "none"
    /\ retryBase = 0
    /\ okSubmits = 0
    /\ anyFailure = FALSE
    /\ genCalls = [p \in Procs |-> 0]
    /\ analysisWrites = 0
    /\ statusRead = [p \in Procs |-> "none"]
    /\ endpoint = "none"
    /\ body = NoBody
    /\ apiPc = "idle"
    /\ upstream = None
    /\ apiResponse = NoApiResponse
    /\ apiCalls = 0
    /\ caller = "none"
    /\ userPrompt = None
    /\ selError = None
    /\ pushed = None
    /\ proceeded = None

Init == Mounted /\ scenarios = None

\* The selection page showing a generated list.
NavInit == Mounted /\ \E list \in ShownLists : scenarios = Some(list)

\* ------------------------------------------- session: catch / finally
\* Variant: the handler has no finally block; the flag stays as it is.
Caught_NoFinally(msg, outcome) ==
    /\ error' = Some(msg)
    /\ loading' = loading
    /\ pc' = "idle"
    /\ teamEntry' = None
    /\ newTranscript' = <<>>
    /\ payload' = None
    /\ finalTranscript' = <<>>
    /\ prevTranscript' = <<>>
    /\ lastOutcome' = outcome
    /\ anyFailure' = TRUE

\* catch (err) { setError(err.message) } finally { setLoading(false) }
\* The handler's locals go out of scope.
Caught(msg, outcome) ==
    /\ error' = Some(msg)
    /\ loading' = FALSE
    /\ pc' = "idle"
    /\ teamEntry' = None
    /\ newTranscript' = <<>>
    /\ payload' = None
    /\ finalTranscript' = <<>>
    /\ prevTranscript' = <<>>
    /\ lastOutcome' = outcome
    /\ anyFailure' = TRUE

\* ------------------------------------------- initializeInterview
\* Variant: the effect's body runs every time the effect fires.
EffectRuns_EveryTime == TRUE

\* if (initHasRun.current) return;
EffectRuns == ~initHasRun

\* The effect fires, on mount or later (its dependency changed, or it is
\* invoked twice), while no handler is at an await; unless it returns at
\* once it runs up to its first await (addDoc).
InitEffect(query) ==
    /\ pc \in {"init", "idle"}
    /\ IF ~EffectRuns
       THEN UNCHANGED <<initHasRun, scenario, teamSize, domain, loading,
                        error, pc, teamEntry, newTranscript, payload,
                        finalTranscript, prevTranscript, lastOutcome,
                        anyFailure>>
       ELSE /\ initHasRun' = TRUE
            /\ IF \/ query.scenario \in {None, Some(<<>>)}
                  \/ query.teamSize = None
                  \/ query.domain \in {None, Some("")}
               THEN /\ Caught("Missing simulation data. Please go back.",
                              "startFail")
                    /\ UNCHANGED <<scenario, teamSize, domain>>
               ELSE IF DecodeScenario(query.scenario[1]) = None
               THEN /\ Caught("The scenario could not be decoded.",
                              "startFail")
                    /\ UNCHANGED <<scenario, teamSize, domain>>
               ELSE /\ scenario' = DecodeScenario(query.scenario[1])[1]
                    /\ teamSize' = query.teamSize[1]
                    /\ domain' = query.domain[1]
                    /\ loading' = TRUE
                    /\ error' = None
                    /\ pc' = "addDoc"
                    /\ UNCHANGED <<teamEntry, newTranscript, payload,
                                   finalTranscript, prevTranscript,
                                   lastOutcome, anyFailure>>
    /\ UNCHANGED <<store, userResponse, simulationDocId, transcript,
                   retryBase, okSubmits, anVars, apiVars, histAn>>

\* addDoc settles; on success the request for the opening prompt is sent.
AddDocDone(ok, now) ==
    /\ pc = "addDoc"
    /\ IF ok
       THEN /\ store' = Append(store,
                   DocData([present |-> TRUE, teamSize |-> teamSize,
                            domain |-> domain, scenario |-> scenario], now))
            /\ simulationDocId' = Len(store) + 1
            /\ pc' = "fetchOpening"
            /\ UNCHANGED <<loading, error, teamEntry, newTranscript, payload,
                           finalTranscript, prevTranscript, lastOutcome,
                           anyFailure>>
       ELSE /\ Caught("addDoc failed", "startFail")
            /\ UNCHANGED <<store, simulationDocId>>
    /\ UNCHANGED <<initHasRun, userResponse, transcript, scenario, teamSize,
                   domain, retryBase, okSubmits, anVars, apiVars, histAn>>

\* The response of /api/makeinterview arrives; on success updateDoc of the
\* first host entry is issued.
OpeningDone(outcome) ==
    /\ pc = "fetchOpening"
    /\ IF outcome = "fail"
       THEN Caught("Failed to start simulation.", "startFail")
       ELSE /\ finalTranscript' = <<HostEntry(outcome)>>
            /\ pc' = "writeOpening"
            /\ UNCHANGED <<loading, error, teamEntry, newTranscript, payload,
                           prevTranscript, lastOutcome, anyFailure>>
    /\ UNCHANGED <<store, initHasRun, userResponse, simulationDocId,
                   transcript, scenario, teamSize, domain, retryBase,
                   okSubmits, anVars, apiVars, histAn>>

\* updateDoc({transcript: [hostEntry]}) settles; setTranscript([hostEntry]).
WriteOpeningDone(ok) ==
    /\ pc = "writeOpening"
    /\ IF ok
       THEN /\ store' = [store EXCEPT ![simulationDocId] =
                            UpdateTranscript(@, finalTranscript)]
            /\ transcript' = finalTranscript
            /\ loading' = FALSE
            /\ pc' = "idle"
            /\ finalTranscript' = <<>>
            /\ lastOutcome' = "startOk"
            /\ UNCHANGED <<error, teamEntry, newTranscript, payload, prevTranscript,
                           anyFailure>>
       ELSE /\ Caught("updateDoc failed", "startFail")
            /\ UNCHANGED <<store, transcript>>
    /\ UNCHANGED <<initHasRun, userResponse, simulationDocId, scenario,
                   teamSize, domain, retryBase, okSubmits, anVars, apiVars, histAn>>

\* ------------------------------------------- the textarea
\* onChange={(e) => setUserResponse(e.target.value)}, disabled={loading}
TypeResponse(text) ==
    /\ Settled
    /\ ~loading
    /\ text # userResponse
    /\ userResponse' = text
    /\ UNCHANGED <<store, initHasRun, loading, error, simulationDocId,
                   transcript, scenario, teamSize, domain, pc, teamEntry,
                   newTranscript, payload, finalTranscript, prevTranscript,
                   anVars, apiVars, histSess, histAn>>

\* ------------------------------------------- handleSubmitResponse
\* A click on the enabled Submit button, up to the first await.  With no
\* simulationDocId the handler returns at once and nothing changes.
SubmitClick ==
    /\ Settled
    /\ SubmitEnabled
    /\ Trim(userResponse) # "" /\ simulationDocId # 0
    /\ Len(transcript) + 2 <= MaxLen
    /\ loading' = TRUE
    /\ error' = None
    /\ teamEntry' = Some(TeamEntry(userResponse))
    /\ prevTranscript' = transcript
    /\ newTranscript' = NewTranscript(transcript, TeamEntry(userResponse))
    /\ transcript' = NewTranscript(transcript, TeamEntry(userResponse))
    /\ pc' = "writeTeam"
    /\ lastOutcome' = "inFlight"
    /\ retryBase' = IF lastOutcome = "genFail"
                    THEN Len(store[simulationDocId].transcript) ELSE 0
    /\ UNCHANGED <<store, initHasRun, userResponse, simulationDocId,
                   scenario, teamSize, domain, finalTranscript, payload,
                   okSubmits, anyFailure, anVars, apiVars, histAn>>

\* updateDoc({transcript: newTranscript}) settles; on success the textarea
\* is cleared and the request to /api/next-prompt is sent.
WriteTeamDone(ok) ==
    /\ pc = "writeTeam"
    /\ IF AfterTeamWrite(ok) = "fetchNext"
       THEN /\ store' = IF ok
                        THEN [store EXCEPT ![simulationDocId] =
                                 UpdateTranscript(@, newTranscript)]
                        ELSE store
            /\ userResponse' = ""
            /\ payload' = Some(Payload(teamSize, domain, scenario, newTranscript))
            /\ pc' = "fetchNext"
            /\ UNCHANGED <<loading, error, teamEntry, newTranscript,
                           finalTranscript, prevTranscript, lastOutcome,
                           anyFailure>>
       ELSE /\ Caught("updateDoc failed", "writeTeamFail")
            /\ UNCHANGED <<store, userResponse>>
    /\ UNCHANGED <<initHasRun, simulationDocId, transcript, scenario,
                   teamSize, domain, retryBase, okSubmits, anVars, apiVars, histAn>>

\* The response of /api/next-prompt arrives.  A non-OK response or an
\* empty nextPrompt throws; otherwise the host entry is appended locally
\* and updateDoc({transcript: finalTranscript}) is issued.
NextPromptDone(outcome) ==
    /\ pc = "fetchNext"
    /\ IF outcome = "fail"
       THEN Caught("Failed to get next prompt", "genFail")
       ELSE IF outcome = ""
       THEN Caught("Invalid response from host API", "genFail")
       ELSE /\ finalTranscript' = FinalTranscript(newTranscript, HostEntry(outcome))
            /\ transcript' = FinalTranscript(newTranscript, HostEntry(outcome))
            /\ pc' = "writeHost"
            /\ UNCHANGED <<loading, error, teamEntry, newTranscript, payload,
                           prevTranscript, lastOutcome, anyFailure>>
    /\ IF outcome \in {"fail", ""} THEN UNCHANGED transcript ELSE TRUE
    /\ UNCHANGED <<store, initHasRun, userResponse, simulationDocId,
                   scenario, teamSize, domain, retryBase, okSubmits,
                   anVars, apiVars, histAn>>

\* updateDoc({transcript: finalTranscript}) settles.
WriteHostDone(ok) ==
    /\ pc = "writeHost"
    /\ IF ok
       THEN /\ store' = [store EXCEPT ![simulationDocId] =
                            UpdateTranscript(@, finalTranscript)]
            /\ loading' = FALSE
            /\ pc' = "idle"
            /\ teamEntry' = None
            /\ newTranscript' = <<>>
            /\ payload' = None
            /\ finalTranscript' = <<>>
            /\ prevTranscript' = <<>>
            /\ lastOutcome' = "submitOk"
            /\ okSubmits' = okSubmits + 1
            /\ UNCHANGED <<error, anyFailure>>
       ELSE /\ Caught("updateDoc failed", "writeHostFail")
            /\ UNCHANGED <<store, okSubmits>>
    /\ UNCHANGED <<initHasRun, userResponse, simulationDocId, transcript,
                   scenario, teamSize, domain, retryBase, anVars, apiVars, histAn>>

\* ------------------------------------------- handleFinishSimulation
\* A click on the enabled Finish button, up to the await.
FinishClick ==
    /\ Settled
    /\ FinishEnabled
    /\ simulationDocId # 0
    /\ loading' = TRUE
    /\ error' = None
    /\ pc' = "writeFinish"
    /\ lastOutcome' = "inFlight"
    /\ UNCHANGED <<store, initHasRun, userResponse, simulationDocId,
                   transcript, scenario, teamSize, domain, teamEntry,
                   newTranscript, payload, finalTranscript, prevTranscript,
                   retryBase, okSubmits, anyFailure, anVars, apiVars, histAn>>

\* updateDoc({status: "completed"}) settles; on success the router leaves
\* the page (loading stays true), on failure the error is shown.
WriteFinishDone(ok) ==
    /\ pc = "writeFinish"
    /\ IF ok
       THEN /\ store' = [store EXCEPT ![simulationDocId] = UpdateCompleted(@)]
            /\ pc' = "navigated"
            /\ lastOutcome' = "finishOk"
            /\ loading' = LoadingAfterFinish(loading)
            /\ UNCHANGED <<error, teamEntry, newTranscript, payload,
                           finalTranscript, prevTranscript, anyFailure>>
       ELSE /\ Caught("updateDoc failed", "finishFail")
            /\ UNCHANGED store
    /\ UNCHANGED <<initHasRun, userResponse, simulationDocId, transcript,
                   scenario, teamSize, domain, retryBase, okSubmits,
                   anVars, apiVars, histAn>>

\* ------------------------------------------- POST /api/analyze-interview
\* Variant: the record's status is tested instead of its analysis.
HasAnalysis_ByStatus(rec) == rec.status = "analyzed"

\* Variant: the stored analysis is never looked at.
HasAnalysis_Never(rec) == FALSE

\* if (simData.analysis): the parsed analysis is always a JSON object, so
\* the truthiness test is a test for presence.
HasAnalysis(rec) == rec.analysis # None

\* Variant: only an empty transcript is refused.
TooShort_OnlyEmpty(rec) == Len(rec.transcript) < 1

\* if (!transcript || transcript.length < 2)
TooShort(rec) == Len(rec.transcript) < 2

\* Variant: the update sets the status and leaves the analysis out.
AnalyzeUpdate_StatusOnly(rec, a) == [rec EXCEPT !.status = "analyzed"]

\* updateDoc(docRef, {analysis: analysis, status: "analyzed"})
AnalyzeUpdate(rec, a) == [rec EXCEPT !.analysis = Some(a), !.status = "analyzed"]

\* The request's return.
Respond(p, r) ==
    /\ apc' = [apc EXCEPT ![p] = "done"]
    /\ response' = [response EXCEPT ![p] = r]

\* A request arrives: without a docId it is answered 400; otherwise getDoc
\* is awaited and the checks up to the fetch of the model run on its
\* snapshot: 404, 400, the stored analysis, or the model request is sent
\* (its prompt is built from the snapshot here; simData is not read
\* again).  Reading the request body touches no shared state, so the step
\* is taken at the moment getDoc reads the store.  The requests are
\* interchangeable, so they are numbered in the order of their arrival.
AnalyzeCall(p, id) ==
    /\ apc[p] = "idle"
    /\ \A q \in Procs : q < p => apc[q] # "idle"
    /\ docId' = [docId EXCEPT ![p] = id]
    /\ statusRead' = [statusRead EXCEPT ![p] =
                         IF id # 0 /\ Exists(id) THEN store[id].status ELSE "none"]
    /\ IF id = 0
       THEN /\ Respond(p, ErrorResponse(400, "No document ID provided"))
            /\ UNCHANGED genCalls
       ELSE IF ~Exists(id)
       THEN /\ Respond(p, ErrorResponse(404, "Simulation not found"))
            /\ UNCHANGED genCalls
       ELSE IF TooShort(store[id])
       THEN /\ Respond(p, ErrorResponse(400, "Transcript is too short to analyze"))
            /\ UNCHANGED genCalls
       ELSE IF HasAnalysis(store[id])
       THEN /\ Respond(p, OkResponse(store[id].analysis[1]))
            /\ UNCHANGED genCalls
       ELSE /\ apc' = [apc EXCEPT ![p] = "fetching"]
            /\ genCalls' = [genCalls EXCEPT ![p] = @ + 1]
            /\ UNCHANGED response
    /\ UNCHANGED <<store, sessVars, apiVars, histSess, analysisWrites>>

\* The model call fails: non-OK response, no candidate text, or text that
\* JSON.parse rejects.  All three are thrown and answered 500.
AnalyzeGenFailed(p, kind) ==
    /\ apc[p] = "fetching"
    /\ Respond(p, ErrorResponse(500, kind))
    /\ UNCHANGED <<store, sessVars, apiVars, histSess, docId, histAn>>

\* The model call returns text that parses to a, and updateDoc settles:
\* on success the analysis is stored and returned, on failure the error is
\* answered 500.  Receiving the model's text touches no shared state, so
\* the step is taken at the moment updateDoc writes the store.
AnalyzeGenDone(p, a, ok) ==
    /\ apc[p] = "fetching"
    /\ IF ok
       THEN /\ store' = [store EXCEPT ![docId[p]] = AnalyzeUpdate(@, a)]
            /\ analysisWrites' = analysisWrites + 1
            /\ Respond(p, OkResponse(a))
       ELSE /\ Respond(p, ErrorResponse(500, "updateDoc failed"))
            /\ UNCHANGED <<store, analysisWrites>>
    /\ UNCHANGED <<sessVars, apiVars, histSess, docId, genCalls, statusRead>>

\* ------------------------------------------- the stateless endpoints
\* What an endpoint answers once its model request has settled.
EndpointRespond(ep, up) ==
    IF ep = "gen" THEN GenRespond(up)
    ELSE IF ep = "makeinterview" THEN MakeInterviewRespond(up)
    ELSE NextPromptRespond(up)

\* The outcomes the model request of an endpoint may have.
Upstreams(ep) ==
    IF ep = "gen" THEN GenUpstreams
    ELSE IF ep = "makeinterview" THEN OpeningUpstreams
    ELSE NextPromptUpstreams

\* POST of an endpoint, up to its await of the model: the body is
\* validated and answered 400, or the model request is sent.
Receive(ep, b, from) ==
    /\ endpoint' = ep
    /\ body' = b
    /\ caller' = from
    /\ upstream' = None
    /\ IF Invalid(ep, b) # None
       THEN /\ apiResponse' = ApiError(400, Invalid(ep, b)[1], None)
            /\ apiCalls' = 0
            /\ userPrompt' = None
            /\ apiPc' = "responded"
       ELSE /\ apiResponse' = NoApiResponse
            /\ apiCalls' = 1
            /\ userPrompt' = IF ep = "next-prompt"
                             THEN Some(BuildUserPrompt(Read(b))) ELSE None
            /\ apiPc' = "calling"

\* A request sent by any HTTP client.
POST(ep, b) ==
    /\ apiPc = "idle"
    /\ Receive(ep, b, "direct")
    /\ UNCHANGED <<scenarios, selError, navVars, simVars>>

\* SelectionPage.handleGenerate, up to its await of fetch("/api/gen").
HandleGenerate(ts, field) ==
    /\ apiPc = "idle"
    /\ scenarios' = None
    /\ IF ts < 1
       THEN /\ selError' = Some("Please enter a valid team size.")
            /\ UNCHANGED <<endpoint, body, caller, upstream, apiResponse,
                           apiCalls, userPrompt, apiPc>>
       ELSE IF Trim(field) = ""
       THEN /\ selError' = Some("Please specify the field or area.")
            /\ UNCHANGED <<endpoint, body, caller, upstream, apiResponse,
                           apiCalls, userPrompt, apiPc>>
       ELSE /\ selError' = None
            /\ Receive("gen", [NoBody EXCEPT !.teamSize = Num(ts),
                                             !.domain = Some(field)], "page")
    /\ UNCHANGED <<navVars, simVars>>

\* The model request settles and the endpoint answers.
Settle(up, r) ==
    /\ apiPc = "calling"
    /\ upstream' = Some(up)
    /\ apiResponse' = r
    /\ apiPc' = "responded"
    /\ UNCHANGED <<endpoint, body, caller, apiCalls, userPrompt, scenarios,
                   selError, navVars, simVars>>

GenFetched(up) == endpoint = "gen" /\ Settle(up, EndpointRespond("gen", up))

MakeInterviewFetched(up) ==
    endpoint = "makeinterview" /\ Settle(up, EndpointRespond("makeinterview", up))

NextPromptGenerated(up) ==
    endpoint = "next-prompt" /\ Settle(up, EndpointRespond("next-prompt", up))

\* The response leaves the endpoint; nothing of the request is kept.
Returned ==
    /\ endpoint' = "none"
    /\ body' = NoBody
    /\ caller' = "none"
    /\ upstream' = None
    /\ apiResponse' = NoApiResponse
    /\ apiCalls' = 0
    /\ userPrompt' = None
    /\ apiPc' = "idle"

\* res.ok
ResOk(r) == r.status \in 200..299

\* SelectionPage.handleGenerate, from the response on.
HandleGenerateDone ==
    /\ apiPc = "responded"
    /\ caller = "page"
    /\ IF ~ResOk(apiResponse)
       THEN /\ selError' = apiResponse.error
            /\ UNCHANGED scenarios
       ELSE IF ~apiResponse.data[1].isArray
       THEN /\ selError' = Some("Invalid response from server.")
            /\ UNCHANGED scenarios
       ELSE /\ scenarios' = Some(apiResponse.data[1].items)
            /\ UNCHANGED selError
    /\ Returned
    /\ UNCHANGED <<navVars, simVars>>

\* Any other client receives the response.
Delivered ==
    /\ apiPc = "responded"
    /\ caller = "direct"
    /\ Returned
    /\ UNCHANGED <<scenarios, selError, navVars, simVars>>

\* SelectionPage.handleProceed: the card of scenarios[index] is clicked and
\* the router is sent to the interview page.
HandleProceed(index, ts, field) ==
    /\ scenarios # None
    /\ pushed = None
    /\ index \in 1..Len(scenarios[1])
    /\ pushed' = Some(Href(scenarios[1][index], ts, field))
    /\ proceeded' = Some(scenarios[1][index])
    /\ UNCHANGED <<endpoint, body, apiPc, upstream, apiResponse, apiCalls,
                   caller, userPrompt, scenarios, selError, simVars>>

\* The interview page opened by that navigation runs its effect.
Opened == pushed # None /\ InitEffect(SearchParams(pushed[1]))

\* --------------------------------------------------------------- Next
Next ==
    \/ \E query \in Queries : InitEffect(query)
    \/ \E ok \in BOOLEAN, now \in Times : AddDocDone(ok, now)
    \/ \E outcome \in OpeningOutcomes : OpeningDone(outcome)
    \/ \E ok \in BOOLEAN : WriteOpeningDone(ok)
    \/ \E text \in TypedTexts : TypeResponse(text)
    \/ SubmitClick
    \/ \E ok \in BOOLEAN : WriteTeamDone(ok)
    \/ \E outcome \in NextPromptOutcomes : NextPromptDone(outcome)
    \/ \E ok \in BOOLEAN : WriteHostDone(ok)
    \/ FinishClick
    \/ \E ok \in BOOLEAN : WriteFinishDone(ok)
    \/ \E p \in Procs, id \in DocIds : AnalyzeCall(p, id)
    \/ \E p \in Procs, kind \in GenFailures : AnalyzeGenFailed(p, kind)
    \/ \E p \in Procs, a \in Analyses, ok \in BOOLEAN : AnalyzeGenDone(p, a, ok)

Spec == Init /\ [][Next]_vars

\* The session on its own, with every store call and every model call it
\* awaits settling in the end, one way or the other.
SessionNext ==
    \/ \E query \in Queries : InitEffect(query)
    \/ \E ok \in BOOLEAN, now \in Times : AddDocDone(ok, now)
    \/ \E outcome \in OpeningOutcomes : OpeningDone(outcome)
    \/ \E ok \in BOOLEAN : WriteOpeningDone(ok)
    \/ \E text \in TypedTexts : TypeResponse(text)
    \/ SubmitClick
    \/ \E ok \in BOOLEAN : WriteTeamDone(ok)
    \/ \E outcome \in NextPromptOutcomes : NextPromptDone(outcome)
    \/ \E ok \in BOOLEAN : WriteHostDone(ok)
    \/ FinishClick
    \/ \E ok \in BOOLEAN : WriteFinishDone(ok)

Settles ==
    \/ \E ok \in BOOLEAN, now \in Times : AddDocDone(ok, now)
    \/ \E outcome \in OpeningOutcomes : OpeningDone(outcome)
    \/ \E ok \in BOOLEAN : WriteOpeningDone(ok)
    \/ \E ok \in BOOLEAN : WriteTeamDone(ok)
    \/ \E outcome \in NextPromptOutcomes : NextPromptDone(outcome)
    \/ \E ok \in BOOLEAN : WriteHostDone(ok)
    \/ \E ok \in BOOLEAN : WriteFinishDone(ok)

LiveSpec == Init /\ [][SessionNext]_vars /\ WF_vars(Settles)

\* The stateless endpoints and the selection page, one request at a time.
ApiNext ==
    \/ \E ep \in Endpoints, b \in Bodies : POST(ep, b)
    \/ \E ts \in FormTeamSizes, field \in FormFields : HandleGenerate(ts, field)
    \/ \E up \in GenUpstreams : GenFetched(up)
    \/ \E up \in OpeningUpstreams : MakeInterviewFetched(up)
    \/ \E up \in NextPromptUpstreams : NextPromptGenerated(up)
    \/ HandleGenerateDone
    \/ Delivered

ApiSpec == Init /\ [][ApiNext]_vars

\* From the selection page into the interview: the navigation and the
\* start of the session it opens.
NavNext ==
    \/ \E index \in 1..2, ts \in FormTeamSizes, field \in FormFields :
           HandleProceed(index, ts, field)
    \/ Opened
    \/ \E ok \in BOOLEAN, now \in Times : AddDocDone(ok, now)
    \/ \E outcome \in OpeningOutcomes : OpeningDone(outcome)
    \/ \E ok \in BOOLEAN : WriteOpeningDone(ok)

NavSpec == NavInit /\ [][NavNext]_vars

\* =====================================================================
\* Properties
\* =====================================================================
Docs == 1..Len(store)

IsPrefix(s, t) == /\ Len(s) <= Len(t)
                  /\ \A i \in 1..Len(s) : s[i] = t[i]

Roles(t) == [i \in 1..Len(t) |-> t[i].role]

Last(t) == t[Len(t)]

Rank(status) == IF status = "pending" THEN 0
                ELSE IF status = "completed" THEN 1 ELSE 2

\* C1: every step leaves each stored transcript a prefix of the transcript
\* stored after the step (documents are never removed), so the stored
\* transcript only grows and no earlier entry's role or content changes.
C1_TranscriptAppendOnly ==
    [][\A id \in Docs :
          /\ id <= Len(store')
          /\ IsPrefix(store[id].transcript, store'[id].transcript)]_vars

\* C1 witness: start, a submit, analyze and finish have all succeeded on
\* the record, with no failed operation in the session.
C1_Witness ==
    /\ Len(store) >= 1
    /\ Len(store[1].transcript) >= 3
    /\ store[1].analysis # None
    /\ store[1].status = "completed"
    /\ lastOutcome = "finishOk"
    /\ ~anyFailure

\* C2: once a record's analysis is set, no later step writes the analysis
\* again or changes its value.
C2_AnalysisWrittenOnce ==
    [][\A id \in Docs :
          store[id].analysis # None =>
              /\ store'[id].analysis = store[id].analysis
              /\ analysisWrites' = analysisWrites]_vars

\* C3: an analyze request that reads a record whose analysis is present
\* returns 200 with exactly that analysis, sends no model request and
\* leaves the store unchanged.
C3_AnalyzeReturnsStored ==
    [][\A p \in Procs :
          (/\ apc[p] = "idle" /\ apc'[p] # "idle"
           /\ docId'[p] \in Docs
           /\ store[docId'[p]].analysis # None)
          => /\ apc'[p] = "done"
             /\ response'[p] = OkResponse(store[docId'[p]].analysis[1])
             /\ genCalls'[p] = 0
             /\ analysisWrites' = analysisWrites
             /\ store' = store]_vars

\* C3 witness: a request was answered 200 without a model request, on a
\* record whose analysis an earlier request had stored.
C3_Witness ==
    \E p \in Procs :
        /\ apc[p] = "done"
        /\ response[p].status = 200
        /\ genCalls[p] = 0
        /\ statusRead[p] \in {"analyzed", "completed"}
        /\ analysisWrites >= 1

\* The step in which request p arrives with the first document's id, when
\* the only other analyze request there has been, q, was made on the
\* completed record and has returned: two analyze calls one after the
\* other.
SecondCall(q, p) ==
    /\ p # q
    /\ apc[q] = "done"
    /\ docId[q] = 1
    /\ statusRead[q] = "completed"
    /\ response[q].status \in {200, 500}
    /\ \A r \in Procs \ {q} : apc[r] = "idle"
    /\ apc'[p] # "idle"
    /\ docId'[p] = 1

\* C4 as stated: two analyze calls one after the other on a completed
\* record return the identical Analysis and issue at most one model
\* request between them, whatever the outcome of the first.
C4_Original ==
    [][\A p, q \in Procs :
          SecondCall(q, p) =>
              /\ response[q].status = 200
              /\ response'[p] = response[q]
              /\ genCalls[q] + genCalls'[p] <= 1]_vars

\* C4 amended: if the first call succeeds, the second returns the identical
\* Analysis without a model request (one model request in total); if the
\* first call fails, nothing was stored and the second sends a model
\* request of its own.
C4_SequentialAnalyze ==
    [][\A p, q \in Procs :
          SecondCall(q, p) =>
              /\ response[q].status = 200 =>
                    /\ apc'[p] = "done"
                    /\ response'[p] = response[q]
                    /\ genCalls'[p] = 0
                    /\ genCalls[q] = 1
                    /\ store' = store
              /\ response[q].status = 500 =>
                    /\ store[1].analysis = None
                    /\ genCalls[q] = 1
                    /\ apc'[p] = "fetching"
                    /\ genCalls'[p] = 1]_vars

\* C4 witness: the first call, made on the completed record, generated and
\* stored an analysis; the second, which read the record as analyzed, was
\* answered 200 with the same analysis and without a model request.
C4_Witness ==
    \E p, q \in Procs :
        /\ p # q
        /\ apc[q] = "done" /\ apc[p] = "done"
        /\ statusRead[q] = "completed" /\ statusRead[p] = "analyzed"
        /\ response[q].status = 200 /\ genCalls[q] = 1
        /\ response[p] = response[q] /\ genCalls[p] = 0
        /\ \A r \in Procs \ {p, q} : apc[r] = "idle"

C6_RetryAddsOneEntry ==
    (/\ lastOutcome = "submitOk"
     /\ retryBase > 0
     /\ store[simulationDocId].transcript[1].role = "host") =>
        Len(store[simulationDocId].transcript) = retryBase + 1

\* C7: while the request for the next host line is in flight, the stored
\* transcript is the transcript sent with the request and ends with the
\* turn's team entry.
C7_TeamPersistedBeforeRequest ==
    pc = "fetchNext" =>
        /\ teamEntry # None
        /\ store[simulationDocId].transcript = newTranscript
        /\ Last(store[simulationDocId].transcript) = teamEntry[1]

\* C7 witness: a host-line request is in flight for a turn that follows a
\* successful start.
C7_Witness ==
    /\ pc = "fetchNext"
    /\ Len(newTranscript) >= 2

\* C8: after a successful start and k successful submits, and no failed
\* operation, the stored transcript has length 1 + 2k and its roles are
\* host, team, host, ..., host.
C8_AlternatingTranscript ==
    (/\ ~anyFailure
     /\ simulationDocId # 0
     /\ pc \in {"idle", "writeFinish", "navigated"})
    => /\ Len(store[simulationDocId].transcript) = 1 + 2 * okSubmits
       /\ \A i \in 1..Len(store[simulationDocId].transcript) :
             store[simulationDocId].transcript[i].role
                 = IF i % 2 = 1 THEN "host" ELSE "team"

\* C8 witness: one submit has succeeded after the start.
C8_Witness ==
    /\ ~anyFailure
    /\ pc = "idle"
    /\ okSubmits = 1
    /\ Roles(store[simulationDocId].transcript) = <<"host", "team", "host">>

\* C9: no step lowers a record's status in the order
\* pending < completed < analyzed.
C9_StatusMonotonic ==
    [][\A id \in Docs :
          Rank(store'[id].status) >= Rank(store[id].status)]_vars

\* C10: a record whose status is analyzed has its analysis set.
C10_AnalyzedHasAnalysis ==
    \A id \in Docs :
        store[id].status = "analyzed" => store[id].analysis # None

\* C10 witness: analyze has stored its result on the record.
C10_Witness ==
    \E id \in Docs :
        /\ store[id].status = "analyzed"
        /\ store[id].analysis # None

\* C11: once start has succeeded, and until the next operation of the
\* session, the stored record has status pending, the teamSize, domain and
\* scenario start was given, and a transcript of exactly one entry, of role
\* host, whose content is the generated opening prompt.
C11_StartResult ==
    lastOutcome = "startOk" =>
        /\ simulationDocId \in Docs
        /\ store[simulationDocId].status = "pending"
        /\ store[simulationDocId].teamSize = ValidParams.teamSize
        /\ store[simulationDocId].domain = ValidParams.domain
        /\ store[simulationDocId].scenario = ValidParams.scenario
        /\ Len(store[simulationDocId].transcript) = 1
        /\ store[simulationDocId].transcript[1].role = "host"
        /\ store[simulationDocId].transcript[1].content \in OpeningPrompts
        /\ store[simulationDocId].analysis = None

\* C11 witness: start has just succeeded.
C11_Witness ==
    /\ lastOutcome = "startOk"
    /\ pc = "idle"
    /\ Len(store) = 1
    /\ Len(store[1].transcript) = 1

\* C12: the step in which the request for the opening prompt fails, after
\* the record was created, leaves the store as it was: the record is still
\* there, pending, with an empty transcript; the error is shown.
C12_OpeningFailureLeavesPending ==
    [][(pc = "fetchOpening" /\ pc' = "idle") =>
          /\ store' = store
          /\ simulationDocId \in 1..Len(store')
          /\ store'[simulationDocId].status = "pending"
          /\ store'[simulationDocId].transcript = <<>>
          /\ store'[simulationDocId].analysis = None
          /\ error' # None
          /\ lastOutcome' = "startFail"]_vars

\* C12 witness: start has failed at the opening prompt; the record exists.
C12_Witness ==
    /\ lastOutcome = "startFail"
    /\ error = Some("Failed to start simulation.")
    /\ simulationDocId = 1
    /\ Len(store) = 1
    /\ store[1].status = "pending"
    /\ store[1].transcript = <<>>

\* C13: an analyze request that arrives for an absent record is answered
\* 404, and one that arrives for a record whose transcript has fewer than
\* two entries is answered 400; either returns at once, without a model
\* request and without a write.
C13_AnalyzeRefusals ==
    [][\A p \in Procs :
          (apc[p] = "idle" /\ apc'[p] # "idle" /\ docId'[p] # 0) =>
              /\ docId'[p] \notin Docs =>
                    /\ apc'[p] = "done"
                    /\ response'[p].status = 404
                    /\ response'[p].analysis = None
                    /\ genCalls'[p] = 0
                    /\ analysisWrites' = analysisWrites
                    /\ store' = store
              /\ (docId'[p] \in Docs /\ Len(store[docId'[p]].transcript) < 2) =>
                    /\ apc'[p] = "done"
                    /\ response'[p].status = 400
                    /\ response'[p].analysis = None
                    /\ genCalls'[p] = 0
                    /\ analysisWrites' = analysisWrites
                    /\ store' = store]_vars

\* C13 witness: one request was answered 404 and another, made on the
\* record when its transcript held the opening line only, 400.
C13_Witness ==
    \E p, q \in Procs :
        /\ apc[p] = "done" /\ docId[p] = 1 /\ response[p].status = 404
        /\ apc[q] = "done" /\ docId[q] = 1 /\ response[q].status = 400
        /\ statusRead[q] = "pending"
        /\ Len(store) = 1 /\ Len(store[1].transcript) = 1

\* ---------------------------------------------------------------------
\* Properties of the stateless endpoints (ApiSpec)
\* ---------------------------------------------------------------------
\* A request's input is invalid: teamSize not a number or not positive,
\* domain absent, empty or blank; for the endpoints that take a scenario,
\* the scenario or one of its members absent; for the endpoint that takes
\* a transcript, the transcript absent or empty.
InvalidInput(ep, b) ==
    \/ b.teamSize.type # "number" \/ b.teamSize.val <= 0
    \/ b.domain = None \/ b.domain[1] \in {"", Blank}
    \/ /\ ep \in {"makeinterview", "next-prompt"}
       /\ \/ b.scenario = None
          \/ "" \in {b.scenario[1].title, b.scenario[1].description,
                     b.scenario[1].keyDecision}
    \/ /\ ep = "next-prompt"
       /\ (b.transcript = None \/ b.transcript[1] = <<>>)

\* C14: a request whose input is invalid is answered 400 and no model
\* request is issued for it.
C14_ValidationBeforeGeneration ==
    (apiPc # "idle" /\ InvalidInput(endpoint, body)) =>
        /\ apiPc = "responded"
        /\ apiResponse.status = 400
        /\ apiCalls = 0

\* An item has its three members, none of them empty.
Populated(item) ==
    /\ item.title # None /\ item.title # Some("")
    /\ item.description # None /\ item.description # Some("")
    /\ item.keyDecision # None /\ item.keyDecision # Some("")

\* C15: the scenarios the selection page holds after a generation are
\* exactly ScenarioCount items, each populated.
C15_ExactlyTenScenarios ==
    scenarios # None =>
        /\ Len(scenarios[1]) = ScenarioCount
        /\ \A i \in 1..Len(scenarios[1]) : Populated(scenarios[1][i])

\* The text the model returned is not the JSON document the endpoint's
\* schema declares: it is not JSON, or a required member is absent.
Malformed(ep, t) ==
    IF ep = "gen"
    THEN \/ ~t.parses \/ ~t.isArray
         \/ \E i \in 1..Len(t.items) :
               None \in {t.items[i].title, t.items[i].description,
                         t.items[i].keyDecision}
    ELSE IF ep = "makeinterview"
    THEN \/ t.before \/ t.after \/ t.object = None
         \/ t.object[1].openingPrompt = None
    ELSE FALSE

\* C16: when the text the model returned for a schema-constrained call is
\* malformed, the endpoint answers with an error and returns no data.
C16_MalformedOutputFails ==
    (/\ apiPc = "responded"
     /\ upstream # None
     /\ upstream[1].text # None
     /\ Malformed(endpoint, upstream[1].text[1]))
    => /\ ~ResOk(apiResponse)
       /\ apiResponse.error # None
       /\ apiResponse.data = None

\* C17: every error response carries an error string and a status among
\* 400, 404 and 500.
C17_ErrorStatuses ==
    (apiPc = "responded" /\ ~ResOk(apiResponse)) =>
        /\ apiResponse.error # None
        /\ apiResponse.status \in {400, 404, 500}

\* The kind of failure of a model request: transport error, content-safety
\* block, empty or missing candidate output, malformed JSON where a schema
\* was requested; "none" when the request did not fail.
FailureKind(ep, up) ==
    IF up.kind \in {"throws", "notOk"} THEN "transport"
    ELSE IF up.kind = "blocked" THEN "safety"
    ELSE IF up.kind = "noCandidate" THEN "empty"
    ELSE IF ep \in {"gen", "makeinterview"} /\ Malformed(ep, up.text[1])
    THEN "malformed"
    ELSE "none"

\* C18: the response to a failed model request differs from the response
\* the same endpoint gives to a failure of any other kind.
C18_FailuresDistinct ==
    (/\ apiPc = "responded"
     /\ upstream # None
     /\ FailureKind(endpoint, upstream[1]) # "none")
    => \A up \in Upstreams(endpoint) :
          FailureKind(endpoint, up)
              \notin {"none", FailureKind(endpoint, upstream[1])}
          => EndpointRespond(endpoint, up) # apiResponse

\* s is t with some of its first and some of its last characters removed,
\* every removed character being a label, a quote or a space.
StrippedAtEnds(s, t) ==
    \E i \in 1..(Len(t) + 1), j \in 0..Len(t) :
        /\ i <= j + 1
        /\ s = SubSeq(t, i, j)
        /\ \A k \in (1..(i - 1)) \cup ((j + 1)..Len(t)) :
              t[k] \in {"Host:", "host:", Quote, Space}

\* C19: the host line returned for a text of the model has no leading
\* label, no quote and no space at either end, and is the text with
\* characters removed at its ends only.
C19_HostLineCleaning ==
    (/\ apiPc = "responded"
     /\ endpoint = "next-prompt"
     /\ ResOk(apiResponse)
     /\ upstream # None)
    => LET line == apiResponse.data[1]
           text == upstream[1].text[1]
       IN  /\ line # <<>> =>
                 /\ line[1] \notin {"Host:", "host:", Quote, Space}
                 /\ line[Len(line)] \notin {Quote, Space}
           /\ StrippedAtEnds(line, text)

\* ---------------------------------------------------------------------
\* C20: while the request for the next host line is in flight, the body
\* it carries and the prompt /api/next-prompt builds from that body hold
\* every entry of the stored transcript, in order, the last one being the
\* team entry just submitted.
C20_WholeTranscriptSent ==
    pc = "fetchNext" =>
        /\ payload # None
        /\ teamEntry # None
        /\ LET stored == store[simulationDocId].transcript
               sent == payload[1].transcript
               text == BuildUserPrompt(payload[1]).transcriptText
           IN  /\ Len(sent) = Len(stored)
               /\ Len(text) = Len(stored)
               /\ \A i \in 1..Len(stored) :
                     /\ sent[i].role = stored[i].role
                     /\ sent[i].content = stored[i].content
                     /\ text[i][2] = stored[i].content
                     /\ text[i][1] = IF stored[i].role = "host"
                                     THEN "HOST" ELSE "TEAM"
               /\ Len(sent) >= 1
               /\ sent[Len(sent)].role = "team"
               /\ sent[Len(sent)].content = teamEntry[1].content

\* C20 witness: the request of a later turn is in flight: the body holds
\* the opening line, the earlier team entry and the one just submitted.
C20_Witness ==
    /\ pc = "fetchNext"
    /\ payload # None
    /\ Len(payload[1].transcript) >= 3
    /\ payload[1].transcript[1].role = "host"
    /\ store[simulationDocId].transcript = newTranscript

\* ---------------------------------------------------------------- C21
\* C21: the scenario chosen on the selection page survives the navigation:
\* once the interview page opened by handleProceed has run its effect, the
\* scenario it decoded from the query string is the chosen one, member for
\* member, and so is the scenario of every record the session created.
C21_ScenarioRoundTrip ==
    proceeded # None /\ initHasRun =>
        /\ scenario.title = proceeded[1].title
        /\ scenario.description = proceeded[1].description
        /\ scenario.keyDecision = proceeded[1].keyDecision
        /\ \A id \in Docs : store[id].scenario = proceeded[1]

\* ---------------------------------------------------------------- C22
\* C22: no step changes the teamSize, domain, scenario or createdAt of a
\* record that exists, and the step in which finish writes to the store
\* leaves the transcript and the analysis of every record as they were.
C22_FixedAtCreation ==
    [][/\ \A id \in Docs :
             /\ id \in 1..Len(store')
             /\ store'[id].teamSize = store[id].teamSize
             /\ store'[id].domain = store[id].domain
             /\ store'[id].scenario = store[id].scenario
             /\ store'[id].createdAt = store[id].createdAt
       /\ (pc = "writeFinish" /\ pc' # "writeFinish") =>
             \A id \in Docs :
                /\ store'[id].transcript = store[id].transcript
                /\ store'[id].analysis = store[id].analysis]_vars

\* C22 witness: finish has written completed over a record that already
\* held an analysis and a transcript of three entries.
C22_Witness ==
    /\ lastOutcome = "finishOk"
    /\ store[simulationDocId].status = "completed"
    /\ store[simulationDocId].analysis # None
    /\ Len(store[simulationDocId].transcript) >= 3
    /\ store[simulationDocId].scenario = ValidParams.scenario

\* ---------------------------------------------------------------- C23
\* C23: a record whose status finish has set to completed holds a stored
\* transcript of at least two entries, whatever failed earlier in the
\* session.
C23_CompletedHasTwoEntries ==
    \A id \in Docs :
        store[id].status = "completed" => Len(store[id].transcript) >= 2

\* ---------------------------------------------------------------- C24
\* A start, submit or finish of the session is at one of its awaits.
InFlight ==
    pc \in {"addDoc", "fetchOpening", "writeOpening", "writeTeam",
            "fetchNext", "writeHost", "writeFinish"}

\* C24: the session has at most one mutation of its record in flight:
\* loading is true for as long as a start, submit or finish is at an
\* await, and a submit or finish begins only in a state where loading is
\* false and none is in flight.
C24_OneMutationInFlight ==
    /\ [](InFlight => loading)
    /\ [][(pc' \in {"writeTeam", "writeFinish"} /\ pc' # pc) =>
              (~loading /\ ~InFlight /\ loading')]_vars

\* C24 witness: a submit is awaiting its store write while a text is in
\* the textarea and the local transcript has two entries, so only the
\* loading flag keeps the Submit and Finish buttons disabled.
C24_Witness ==
    /\ pc = "writeTeam"
    /\ loading
    /\ Trim(userResponse) # ""
    /\ Len(transcript) >= 2

\* ---------------------------------------------------------------- C25
\* C25: every stored transcript that is not empty begins with a host
\* entry.
C25_StoredBeginsWithHost ==
    \A id \in Docs :
        store[id].transcript # <<>> => store[id].transcript[1].role = "host"

C27_FrozenAfterFinish ==
    [][lastOutcome = "finishOk" =>
          /\ store'[simulationDocId].transcript
                 = store[simulationDocId].transcript
          /\ loading /\ loading'
          /\ lastOutcome' = "finishOk"]_vars

\* C27 witness: finish succeeded with a text left in the textarea and the
\* record has been analysed since.
C27_Witness ==
    /\ lastOutcome = "finishOk"
    /\ loading
    /\ Trim(userResponse) # ""
    /\ store[simulationDocId].status = "analyzed"
    /\ Len(store[simulationDocId].transcript) >= 2

\* ---------------------------------------------------------------- C28
\* C28: no step changes the stored transcript of a record whose analysis
\* is persisted.
C28_TranscriptFixedOnceAnalysed ==
    [][\A id \in Docs :
          store[id].analysis # None =>
              store'[id].transcript = store[id].transcript]_vars

\* ---------------------------------------------------------------- C29
\* C29: the session creates at most one record: the collection never
\* holds more than one, and the record-creating code is entered only by
\* the first firing of the effect, before any record exists; a start that
\* failed is not run again.
C29_OneRecordPerSession ==
    /\ [](Len(store) <= 1)
    /\ [][(pc' = "addDoc" /\ pc # "addDoc") =>
              (~initHasRun /\ store = <<>> /\ lastOutcome = "none")]_vars

\* C29 witness: the start failed after its record was created; the effect
\* has run, the session is idle and the collection holds the one record.
C29_Witness ==
    /\ initHasRun
    /\ pc = "idle"
    /\ lastOutcome = "startFail"
    /\ Len(store) = 1
    /\ simulationDocId = 1

====
